---- MODULE Spec2Model ----
(***************************************************************************)
(* Model of server.js: the start-up configuration checks, the four HTTP    *)
(* handlers, the payment gateway (stripe.checkout.sessions) and the mail   *)
(* transport (transporter.sendMail) they call.                             *)
(*                                                                         *)
(* A JavaScript string is a sequence of tokens where its characters matter *)
(* (URLs, the formatted amount) and a TLA+ string where it is only copied. *)
(* Undefined stands for a missing property.  Every action is one run of    *)
(* handler code between two awaits: the event loop runs such a stretch to  *)
(* completion before anything else.                                        *)
(*                                                                         *)
(* The request body is an object (express.json() has parsed it), and the   *)
(* gateway returns every session with a metadata object, which may lack    *)
(* keys: line 74 and line 137 destructure them without a guard.            *)
(***************************************************************************)
EXTENDS Integers, Sequences, FiniteSets, TLC

\* ------------------------------------------------------------------ bounds
\* Requests that may be in flight at once.
MaxInFlight == 2
\* Requests received over the life of the process.
MaxRequests == 2
\* Sessions the gateway holds.
MaxSessions == 1

\* --------------------------------------------------------------- JS values
Undefined == "<undefined>"

\* !v for a value that is a string or undefined.
Falsy(v) == v \in {Undefined, ""}

\* v || d
OrElse(v, d) == IF Falsy(v) THEN d ELSE v

\* `${v}` in a template literal.
Interp(v) == IF v = Undefined THEN "undefined" ELSE v

DigitChars == <<"0", "1", "2", "3", "4", "5", "6", "7", "8", "9">>

RECURSIVE DigitsOf(_)
\* String(n) for a natural number: its decimal digits, most significant first.
DigitsOf(n) ==
    IF n < 10 THEN <<DigitChars[n + 1]>>
    ELSE Append(DigitsOf(n \div 10), DigitChars[(n % 10) + 1])

\* A toFixed that keeps one decimal.
ToFixed2OneDecimal(amount_total) ==
    DigitsOf(amount_total \div 100) \o <<".">>
        \o <<DigitChars[((amount_total % 100) \div 10) + 1]>>

\* (amount_total / 100).toFixed(2) for a non-negative integer amount_total:
\* the integer part, a point, and the two digits of the remainder.
ToFixed2OfHundredth(amount_total) ==
    DigitsOf(amount_total \div 100) \o <<".">>
        \o <<DigitChars[((amount_total % 100) \div 10) + 1],
              DigitChars[(amount_total % 10) + 1]>>

\* ------------------------------------------------------------------- URLs
SpecialSchemes == {"http", "https", "ws", "wss", "ftp", "file"}
\* Tokens that are runs of letters, digits and dots starting with a letter.
Words == SpecialSchemes \cup {"mailto", "not", "a", "url", "a.co", "x", "test",
                               "payment=success&session_id=", "payment=canceled"}
Slashes == {"/", "\\"}

RECURSIVE SkipSlashes(_)
SkipSlashes(s) ==
    IF s # <<>> /\ Head(s) \in Slashes THEN SkipSlashes(Tail(s)) ELSE s

\* new url.URL(s) with no base: TRUE when it parses, FALSE when it throws.
\* A scheme and a colon are required; a special scheme other than file also
\* requires a host.
URLParses(s) ==
    /\ Len(s) >= 2
    /\ s[1] \in Words
    /\ s[2] = ":"
    /\ LET rest == SkipSlashes(SubSeq(s, 3, Len(s)))
       IN  (s[1] \in SpecialSchemes \ {"file"}) =>
               (rest # <<>> /\ rest[1] \in Words)

RECURSIVE Replace(_, _, _)
\* s.replace(tok, by): the first occurrence only.
Replace(s, tok, by) ==
    IF s = <<>> THEN <<>>
    ELSE IF Head(s) = tok THEN <<by>> \o Tail(s)
    ELSE <<Head(s)>> \o Replace(Tail(s), tok, by)

\* ------------------------------------------------------------ environment
EnvNames == {"STRIPE_SECRET_KEY", "STRIPE_PUBLISHABLE_KEY", "EMAIL_PASSWORD",
             "FRONTEND_URL"}
KeyValues == {<<>>, <<"x">>}
FrontendUrlValues ==
    { <<>>,
      <<"not", " ", "a", " ", "url">>,
      <<"a.co">>,
      <<"http", ":", "/", "/">>,
      <<"https", ":", "/", "/", "a.co">> }

\* process.env: a variable that is not set is not in the domain.
Environments ==
    UNION { { e \in [names -> KeyValues \cup FrontendUrlValues] :
                \A n \in names :
                    IF n = "FRONTEND_URL" THEN e[n] \in FrontendUrlValues
                                          ELSE e[n] \in KeyValues }
            : names \in SUBSET EnvNames }

VARIABLES
    env,        \* process.env
    proc,       \* the process: [state, exitCode, diagnostic]
    slots,      \* the requests in flight
    last,       \* the response most recently written
    nReq,       \* the requests received so far
    sessions,   \* the gateway's sessions, in the order they were issued
    sendCalls,  \* per session id: the transporter.sendMail calls made for it
    paidPolls   \* per session id: the status polls that retrieved it paid

vars == <<env, proc, slots, last, nReq, sessions, sendCalls, paidPolls>>

\* !process.env[name]
EnvFalsy(e, name) == name \notin DOMAIN e \/ e[name] = <<>>

\* ---------------------------------------------------------------- startup
Exit(diagnostic) ==
    [state |-> "exited", exitCode |-> 1, diagnostic |-> diagnostic]

Listening == [state |-> "listening"]

\* A start-up that does not parse FRONTEND_URL.
StartupResultUnparsed(e) ==
    IF \E n \in EnvNames : EnvFalsy(e, n)
        THEN Exit("Error: a required variable is not set.")
    ELSE Listening

\* The checks of lines 13-36 in their order, then app.listen.
StartupResult(e) ==
    IF EnvFalsy(e, "STRIPE_SECRET_KEY")
        THEN Exit("Error: STRIPE_SECRET_KEY is not set.")
    ELSE IF EnvFalsy(e, "STRIPE_PUBLISHABLE_KEY")
        THEN Exit("Error: STRIPE_PUBLISHABLE_KEY is not set.")
    ELSE IF EnvFalsy(e, "EMAIL_PASSWORD")
        THEN Exit("Error: EMAIL_PASSWORD is not set.")
    ELSE IF EnvFalsy(e, "FRONTEND_URL")
        THEN Exit("Error: FRONTEND_URL is not set.")
    ELSE IF ~URLParses(e["FRONTEND_URL"])
        THEN Exit("Error: Invalid FRONTEND_URL")
    ELSE Listening

\* ---------------------------------------------------------------- gateway
UnitAmount == 2000
Quantity == 1
SessionIdPool == <<"cs_1", "cs_2", "cs_3", "cs_4", "cs_5">>
SessionIds == {SessionIdPool[i] : i \in 1..Len(SessionIdPool)}
NoSuchSession == "No such checkout.session"
CreateErrors == {"connection timeout", "Invalid email address"}
RetrieveErrors == {"connection timeout", NoSuchSession}
MailErrors == {"Invalid login: 535", "No recipients defined"}

\* Sessions of the same gateway account that this server did not create.
ForeignSessions ==
    { [id |-> SessionIdPool[1], payment_status |-> "unpaid", amount_total |-> 5,
       customer_email |-> "b@y.io",
       metadata |-> [vehicleIdentifier |-> "VIN9", fullName |-> "Bob",
                     phone |-> "", country |-> "DE", state |-> ""]],
      [id |-> SessionIdPool[1], payment_status |-> "unpaid",
       amount_total |-> 12345, customer_email |-> "b@y.io",
       metadata |-> [vehicleIdentifier |-> "VIN9"]] }

\* stripe.checkout.sessions.create: the session the gateway issues for the
\* parameters, the n-th of the account.
GatewayCreate(params, n) ==
    [id |-> SessionIdPool[n],
     payment_status |-> "unpaid",
     amount_total |-> params.unit_amount * params.quantity,
     customer_email |-> params.customer_email,
     metadata |-> params.metadata]

\* The sessions with the given id (none or one).
Lookup(ss, id) == {i \in 1..Len(ss) : ss[i].id = id}

\* ------------------------------------------------------- request handling
\* No session retrieved (yet).
NoSession == [id |-> Undefined, payment_status |-> Undefined]

\* A request slot: where the handler stands (pc), the request, the argument
\* of the create call, the session retrieved, the arguments and the states
\* of the sendMail calls, and the outbound calls made so far.
IdleSlot ==
    [pc |-> "idle", kind |-> "", req |-> <<>>, params |-> <<>>,
     sess |-> NoSession, mails |-> <<>>, sendState |-> <<>>, calls |-> <<>>]

\* A response: the request's slot as it stood, the status, the body and
\* what console.error logged.
NoResponse ==
    [kind |-> "", req |-> <<>>, status |-> 0, body |-> <<>>,
     sess |-> NoSession, mails |-> <<>>, sendState |-> <<>>, calls |-> <<>>,
     logged |-> <<>>]

\* The response written for the request in slot record sl.
Response(sl, status, body, logged) ==
    [kind |-> sl.kind, req |-> sl.req, status |-> status, body |-> body,
     sess |-> sl.sess, mails |-> sl.mails, sendState |-> sl.sendState,
     calls |-> sl.calls, logged |-> logged]

\* A property of an object, undefined when it has none of that name.
Prop(obj, k) == IF k \in DOMAIN obj THEN obj[k] ELSE Undefined

\* Request bodies: every way of leaving required fields out with the optional
\* ones present, and every way of leaving optional fields out with the
\* required ones present.
Bodies ==
    [vehicleIdentifier : {Undefined, "VIN1"}, fullName : {"", "Ann"},
     email : {Undefined, "a@x.io"}, phone : {"555"},
     country : {"", "US"}, state : {"CA"}]
    \cup
    [vehicleIdentifier : {"VIN1"}, fullName : {"Ann"},
     email : {"a@x.io"}, phone : {Undefined, "555"},
     country : {"US"}, state : {"", "CA"}]

\* A check that forgets country.
MissingRequiredButCountry(body) ==
    Falsy(body.vehicleIdentifier) \/ Falsy(body.fullName) \/ Falsy(body.email)

\* !vehicleIdentifier || !fullName || !email || !country
MissingRequired(body) ==
    \/ Falsy(body.vehicleIdentifier)
    \/ Falsy(body.fullName)
    \/ Falsy(body.email)
    \/ Falsy(body.country)

SuccessSuffix ==
    <<"/", "?", "payment=success&session_id=", "{CHECKOUT_SESSION_ID}">>
CancelSuffix == <<"/", "?", "payment=canceled">>

\* Metadata that passes the optional fields on as they came.
SessionMetadataRaw(body) ==
    [vehicleIdentifier |-> body.vehicleIdentifier, fullName |-> body.fullName,
     phone |-> body.phone, country |-> body.country, state |-> body.state]

\* The metadata object of lines 110-116.
SessionMetadata(body) ==
    [vehicleIdentifier |-> body.vehicleIdentifier,
     fullName |-> body.fullName,
     phone |-> OrElse(body.phone, ""),
     country |-> body.country,
     state |-> OrElse(body.state, "")]

\* The argument of stripe.checkout.sessions.create, lines 91-117.
CreateParams(body, successUrl, cancelUrl) ==
    [payment_method_types |-> <<"card">>,
     currency |-> "usd",
     product_name |-> "Vehicle Check Report",
     product_description |-> <<"Vehicle Check for ", body.vehicleIdentifier>>,
     unit_amount |-> UnitAmount,
     quantity |-> Quantity,
     mode |-> "payment",
     success_url |-> successUrl,
     cancel_url |-> cancelUrl,
     customer_email |-> body.email,
     metadata |-> SessionMetadata(body)]

\* ------------------------------------------------------------------- mail
SenderIdentity == "Clear Auto Check <info@clearautocheck.com>"
AdminAddress == "info@clearautocheck.com"

\* A status test that takes everything but unpaid for paid.
IsNotUnpaid(session) == session.payment_status # "unpaid"

\* A status test that notifies once per session.
IsPaidFirstTime(session) ==
    session.payment_status = "paid" /\ paidPolls[session.id] = 0

\* session.payment_status === 'paid'
IsPaid(session) == session.payment_status = "paid"

\* userMailOptions, lines 141-152 and 171-176.
UserMailOptions(session) ==
    [from |-> SenderIdentity,
     to |-> session.customer_email,
     subject |-> "Your Vehicle Check Report Order Confirmation",
     html |-> [template |-> "userConfirmation",
               fullName |-> Interp(Prop(session.metadata, "fullName"))]]

\* adminMailOptions, lines 155-169 and 178-183.
AdminMailOptions(session, sessionId) ==
    [from |-> SenderIdentity,
     to |-> AdminAddress,
     subject |-> "New Vehicle Check Request",
     html |-> [template |-> "adminNotification",
               vehicleIdentifier |->
                   Interp(Prop(session.metadata, "vehicleIdentifier")),
               fullName |-> Interp(Prop(session.metadata, "fullName")),
               email |-> Interp(session.customer_email),
               phone |-> OrElse(Prop(session.metadata, "phone"), "Not provided"),
               country |-> Interp(Prop(session.metadata, "country")),
               state |-> OrElse(Prop(session.metadata, "state"), "Not provided"),
               paymentAmount |->
                   <<"$">> \o ToFixed2OfHundredth(session.amount_total)
                       \o <<" ", "USD">>,
               sessionId |-> sessionId]]

\* A join that settles with the first send to settle.
PromiseRace(st) ==
    IF \A i \in DOMAIN st : st[i] = "pending" THEN "pending"
    ELSE IF \E i \in DOMAIN st : st[i] = "rejected" THEN "rejected"
    ELSE "fulfilled"

\* A join that waits for every send and never rejects.
PromiseAllSettled(st) ==
    IF \E i \in DOMAIN st : st[i] = "pending" THEN "pending" ELSE "fulfilled"

\* Promise.all over the sends' states: rejected as soon as one is rejected,
\* fulfilled once all are fulfilled, pending otherwise.
PromiseAll(st) ==
    IF \E i \in DOMAIN st : st[i] = "rejected" THEN "rejected"
    ELSE IF \A i \in DOMAIN st : st[i] = "fulfilled" THEN "fulfilled"
    ELSE "pending"

\* ----------------------------------------------------------- response bodies
MissingFieldsBody == [error |-> "Missing required fields"]
InvalidUrlBody == [error |-> "Invalid URL format"]
SessionIdRequiredBody == [error |-> "Session ID is required"]

\* A body that passes the error's message on.
LeakingFailureBody(err) == [error |-> err]

\* The body of line 122.
CreateFailureBody(err) == [error |-> "Failed to create checkout session"]

\* The body of line 194.
RetrieveFailureBody(err) == [error |-> "Failed to retrieve checkout session"]

\* A body that is the whole session.
WholeSessionBody(session) == session

\* The body of line 119.
CreateSuccessBody(session) == [id |-> session.id]

\* ---------------------------------------------------------------- actions
Init ==
    /\ env \in Environments
    /\ proc = [state |-> "starting"]
    /\ slots = [r \in 1..MaxInFlight |-> IdleSlot]
    /\ last = NoResponse
    /\ nReq = 0
    /\ sessions \in {<<>>} \cup {<<f>> : f \in ForeignSessions}
    /\ sendCalls = [id \in SessionIds |-> 0]
    /\ paidPolls = [id \in SessionIds |-> 0]

\* Lines 8-62 and 198: the module's top level, run once.
Startup ==
    /\ proc.state = "starting"
    /\ proc' = StartupResult(env)
    /\ UNCHANGED <<env, slots, last, nReq, sessions, sendCalls, paidPolls>>

\* The server takes requests once it listens.
CanReceive == proc.state = "listening" /\ nReq < MaxRequests

\* The slot a new request takes: the first idle one.
IsFreeSlot(r) ==
    /\ slots[r].pc = "idle"
    /\ \A q \in 1..MaxInFlight : q < r => slots[q].pc # "idle"

\* GET /health
GetHealth ==
    /\ CanReceive
    /\ nReq' = nReq + 1
    /\ last' = Response([IdleSlot EXCEPT !.kind = "health"], 200,
                        [status |-> "OK"], <<>>)
    /\ UNCHANGED <<env, proc, slots, sessions, sendCalls, paidPolls>>

\* GET /api/config
GetConfig ==
    /\ CanReceive
    /\ nReq' = nReq + 1
    /\ last' = Response([IdleSlot EXCEPT !.kind = "config"], 200,
                        [publishableKey |-> env["STRIPE_PUBLISHABLE_KEY"]], <<>>)
    /\ UNCHANGED <<env, proc, slots, sessions, sendCalls, paidPolls>>

\* POST /api/create-checkout-session, lines 72-91: up to the await of
\* stripe.checkout.sessions.create.
PostCreateCheckoutSession(r, body) ==
    /\ CanReceive
    /\ IsFreeSlot(r)
    /\ nReq' = nReq + 1
    /\ LET sl == [IdleSlot EXCEPT !.kind = "create", !.req = body]
           successUrl == env["FRONTEND_URL"] \o SuccessSuffix
           cancelUrl == env["FRONTEND_URL"] \o CancelSuffix
       IN  IF MissingRequired(body)
             THEN /\ last' = Response(sl, 400, MissingFieldsBody, <<>>)
                  /\ UNCHANGED slots
           ELSE IF ~(/\ URLParses(Replace(successUrl, "{CHECKOUT_SESSION_ID}",
                                          "test"))
                     /\ URLParses(cancelUrl))
             THEN /\ last' = Response(sl, 400, InvalidUrlBody, <<>>)
                  /\ UNCHANGED slots
           ELSE /\ slots' = [slots EXCEPT ![r] =
                      [sl EXCEPT !.pc = "create_wait",
                                 !.params = CreateParams(body, successUrl, cancelUrl),
                                 !.calls = <<"checkout.sessions.create">>]]
                /\ UNCHANGED last
    /\ UNCHANGED <<env, proc, sessions, sendCalls, paidPolls>>

\* stripe.checkout.sessions.create resolves: lines 91 and 119.
CreateResolved(r) ==
    /\ slots[r].pc = "create_wait"
    /\ Len(sessions) < MaxSessions
    /\ LET session == GatewayCreate(slots[r].params, Len(sessions) + 1)
       IN  /\ sessions' = Append(sessions, session)
           /\ last' = Response(slots[r], 200, CreateSuccessBody(session), <<>>)
    /\ slots' = [slots EXCEPT ![r] = IdleSlot]
    /\ UNCHANGED <<env, proc, nReq, sendCalls, paidPolls>>

\* stripe.checkout.sessions.create rejects: lines 120-123.
CreateRejected(r, err) ==
    /\ slots[r].pc = "create_wait"
    /\ last' = Response(slots[r], 500, CreateFailureBody(err),
                        <<"Error creating checkout session:", err>>)
    /\ slots' = [slots EXCEPT ![r] = IdleSlot]
    /\ UNCHANGED <<env, proc, nReq, sessions, sendCalls, paidPolls>>

\* GET /api/checkout-session, lines 126-134: up to the await of
\* stripe.checkout.sessions.retrieve.
GetCheckoutSession(r, sessionId) ==
    /\ CanReceive
    /\ IsFreeSlot(r)
    /\ nReq' = nReq + 1
    /\ LET sl == [IdleSlot EXCEPT !.kind = "status",
                                   !.req = [sessionId |-> sessionId]]
       IN  IF Falsy(sessionId)
             THEN /\ last' = Response(sl, 400, SessionIdRequiredBody, <<>>)
                  /\ UNCHANGED slots
           ELSE /\ slots' = [slots EXCEPT ![r] =
                      [sl EXCEPT !.pc = "retrieve_wait",
                                 !.calls = <<"checkout.sessions.retrieve">>]]
                /\ UNCHANGED last
    /\ UNCHANGED <<env, proc, sessions, sendCalls, paidPolls>>

\* stripe.checkout.sessions.retrieve resolves: lines 134-191, up to the
\* await of Promise.all on a paid session and to the response otherwise.
RetrieveResolved(r) ==
    /\ slots[r].pc = "retrieve_wait"
    /\ \E i \in Lookup(sessions, slots[r].req.sessionId) :
        LET session == sessions[i]
            sl == [slots[r] EXCEPT !.sess = session]
            mails == <<UserMailOptions(session),
                       AdminMailOptions(session, sl.req.sessionId)>>
        IN  /\ paidPolls' = IF session.payment_status = "paid"
                              THEN [paidPolls EXCEPT ![session.id] = @ + 1]
                              ELSE paidPolls
            /\ IF IsPaid(session)
                 THEN /\ slots' = [slots EXCEPT ![r] =
                            [sl EXCEPT !.pc = "mail_wait",
                                       !.mails = mails,
                                       !.sendState = [k \in 1..Len(mails) |-> "pending"],
                                       !.calls = @ \o [k \in 1..Len(mails) |-> "sendMail"]]]
                      /\ sendCalls' = [sendCalls EXCEPT ![session.id] = @ + Len(mails)]
                      /\ UNCHANGED last
                 ELSE /\ last' = Response(sl, 200, session, <<>>)
                      /\ slots' = [slots EXCEPT ![r] = IdleSlot]
                      /\ UNCHANGED sendCalls
    /\ UNCHANGED <<env, proc, nReq, sessions>>

\* stripe.checkout.sessions.retrieve rejects: lines 192-195.
RetrieveRejected(r, err) ==
    /\ slots[r].pc = "retrieve_wait"
    /\ (err = NoSuchSession) <=> (Lookup(sessions, slots[r].req.sessionId) = {})
    /\ last' = Response(slots[r], 500, RetrieveFailureBody(err),
                        <<"Error retrieving checkout session:", err>>)
    /\ slots' = [slots EXCEPT ![r] = IdleSlot]
    /\ UNCHANGED <<env, proc, nReq, sessions, sendCalls, paidPolls>>

\* One transporter.sendMail promise settles.  While the handler awaits
\* Promise.all (lines 185-188) the settling may settle the join, and the
\* handler then runs on to line 191 or to lines 192-195.  A send still
\* pending after the response settles later with no handler waiting.
SendSettled(r, i, outcome, err) ==
    /\ slots[r].pc \in {"mail_wait", "drain"}
    /\ i \in DOMAIN slots[r].sendState
    /\ slots[r].sendState[i] = "pending"
    /\ LET st == [slots[r].sendState EXCEPT ![i] = outcome]
           sl == [slots[r] EXCEPT !.sendState = st]
           join == PromiseAll(st)
           after == IF \E k \in DOMAIN st : st[k] = "pending"
                      THEN [sl EXCEPT !.pc = "drain"]
                      ELSE IdleSlot
       IN  IF slots[r].pc = "mail_wait" /\ join = "fulfilled"
             THEN /\ last' = Response(sl, 200, sl.sess, <<>>)
                  /\ slots' = [slots EXCEPT ![r] = after]
           ELSE IF slots[r].pc = "mail_wait" /\ join = "rejected"
             THEN /\ last' = Response(sl, 500, RetrieveFailureBody(err),
                                      <<"Error retrieving checkout session:", err>>)
                  /\ slots' = [slots EXCEPT ![r] = after]
           ELSE IF slots[r].pc = "mail_wait"
             THEN /\ slots' = [slots EXCEPT ![r] = sl]
                  /\ UNCHANGED last
           ELSE /\ slots' = [slots EXCEPT ![r] = after]
                /\ UNCHANGED last
    /\ UNCHANGED <<env, proc, nReq, sessions, sendCalls, paidPolls>>

SendFulfilled(r, i) == SendSettled(r, i, "fulfilled", "")

SendRejected(r, i, err) == SendSettled(r, i, "rejected", err)

\* The gateway records the outcome of a checkout: unpaid to paid or expired.
GatewaySettles(i, status) ==
    /\ i \in 1..Len(sessions)
    /\ sessions[i].payment_status = "unpaid"
    /\ sessions' = [sessions EXCEPT ![i].payment_status = status]
    /\ UNCHANGED <<env, proc, slots, last, nReq, sendCalls, paidPolls>>

SlotIds == 1..MaxInFlight
QueriedSessionIds ==
    {Undefined, ""} \cup {SessionIdPool[i] : i \in 1..MaxSessions}

Next ==
    \/ Startup
    \/ GetHealth
    \/ GetConfig
    \/ \E r \in SlotIds, body \in Bodies : PostCreateCheckoutSession(r, body)
    \/ \E r \in SlotIds : CreateResolved(r)
    \/ \E r \in SlotIds, err \in CreateErrors : CreateRejected(r, err)
    \/ \E r \in SlotIds, id \in QueriedSessionIds : GetCheckoutSession(r, id)
    \/ \E r \in SlotIds : RetrieveResolved(r)
    \/ \E r \in SlotIds, err \in RetrieveErrors : RetrieveRejected(r, err)
    \/ \E r \in SlotIds, i \in 1..2 : SendFulfilled(r, i)
    \/ \E r \in SlotIds, i \in 1..2, err \in MailErrors : SendRejected(r, i, err)
    \/ \E i \in 1..MaxSessions, status \in {"paid", "expired"} :
           GatewaySettles(i, status)

Spec == Init /\ [][Next]_vars

\* ================================================================= claims
RequiredFields == {"vehicleIdentifier", "fullName", "email", "country"}

\* A request body with a required field absent or empty.
LacksRequired(body) == \E f \in RequiredFields : body[f] \in {Undefined, ""}

\* The number of calls of an operation in a handler's record of calls.
CountCalls(calls, op) == Cardinality({k \in DOMAIN calls : calls[k] = op})

DigitValue(c) == CHOOSE d \in 0..9 : DigitChars[d + 1] = c

RECURSIVE DecimalValue(_)
\* The number a sequence of digit characters writes.
DecimalValue(ds) ==
    IF ds = <<>> THEN 0
    ELSE 10 * DecimalValue(SubSeq(ds, 1, Len(ds) - 1)) + DigitValue(ds[Len(ds)])

IsDigits(ds) ==
    ds # <<>> /\ \A k \in DOMAIN ds : \E d \in 0..9 : DigitChars[d + 1] = ds[k]

\* text is "$" D "." d d " " "USD" and D.dd is cents hundredths.
WritesDollars(text, cents) ==
    LET n == Len(text)
    IN  /\ n >= 7
        /\ text[1] = "$"
        /\ text[n - 4] = "."
        /\ text[n - 1] = " "
        /\ text[n] = "USD"
        /\ IsDigits(SubSeq(text, 2, n - 5))
        /\ IsDigits(SubSeq(text, n - 3, n - 2))
        /\ 100 * DecimalValue(SubSeq(text, 2, n - 5))
               + DecimalValue(SubSeq(text, n - 3, n - 2)) = cents

\* The last response answers a status poll that retrieved a session.
AnswersPollOf(status) ==
    /\ last.kind = "status"
    /\ last.sess.payment_status = status

\* C1: a create request with a required field absent or empty is answered
\* 400 'Missing required fields' having made no outbound call, and no such
\* request is ever waiting on the gateway's session-create.
C1_MissingFieldsRejected ==
    /\ (last.kind = "create" /\ LacksRequired(last.req)) =>
           /\ last.status = 400
           /\ last.body = [error |-> "Missing required fields"]
           /\ last.calls = <<>>
    /\ \A r \in SlotIds :
           slots[r].kind = "create" => ~LacksRequired(slots[r].req)

C1_Witness ==
    /\ last.kind = "create"
    /\ last.req.country = ""
    /\ last.req.vehicleIdentifier = "VIN1"
    /\ last.req.fullName = "Ann"
    /\ last.req.email = "a@x.io"
    /\ last.status = 400

\* C2: a status poll answered 200 for a session retrieved paid made exactly
\* two sendMail calls, one to the session's customer email and one to the
\* admin address, and the admin mail writes amount_total / 100 with two
\* decimals: 2000 as $20.00.
C2_PaidSendsTwoMails ==
    (AnswersPollOf("paid") /\ last.status = 200) =>
        /\ CountCalls(last.calls, "sendMail") = 2
        /\ Len(last.mails) = 2
        /\ \A k \in 1..2 : last.sendState[k] = "fulfilled"
        /\ \E u, a \in 1..2 :
               /\ u # a
               /\ last.mails[u].to = last.sess.customer_email
               /\ last.mails[u].html.template = "userConfirmation"
               /\ last.mails[a].to = "info@clearautocheck.com"
               /\ last.mails[a].html.template = "adminNotification"
               /\ WritesDollars(last.mails[a].html.paymentAmount,
                                last.sess.amount_total)
               /\ last.sess.amount_total = 2000 =>
                      last.mails[a].html.paymentAmount
                          = <<"$", "2", "0", ".", "0", "0", " ", "USD">>

C2_Witness ==
    /\ AnswersPollOf("paid")
    /\ last.status = 200
    /\ last.sess.amount_total = 2000
    /\ last.mails[2].html.paymentAmount
           = <<"$", "2", "0", ".", "0", "0", " ", "USD">>

\* C3: a status poll that retrieved a session whose payment_status is not
\* 'paid' makes no sendMail call and is answered 200 with the session as the
\* gateway returned it; no request holding such a session is left in flight.
C3_UnpaidSendsNothing ==
    /\ (last.kind = "status" /\ last.sess.payment_status \notin {Undefined, "paid"}) =>
           /\ last.status = 200
           /\ last.body = last.sess
           /\ last.mails = <<>>
           /\ CountCalls(last.calls, "sendMail") = 0
    /\ \A r \in SlotIds :
           slots[r].sess.payment_status \in {Undefined, "paid"}
    /\ \A i \in 1..Len(sessions) :
           sendCalls[sessions[i].id] > 0 => sessions[i].payment_status = "paid"

C3_Witness ==
    /\ AnswersPollOf("expired")
    /\ last.status = 200
    /\ last.body.id = last.req.sessionId
    /\ last.calls = <<"checkout.sessions.retrieve">>

\* C4: a status poll one of whose sends was rejected is answered 500 with
\* the generic error and no session data, also when the other send was
\* fulfilled.
C4_MailFailureHidesSession ==
    (last.kind = "status"
        /\ \E k \in DOMAIN last.sendState : last.sendState[k] = "rejected") =>
            /\ last.status = 500
            /\ DOMAIN last.body = {"error"}
            /\ last.body # last.sess

C4_Witness ==
    /\ AnswersPollOf("paid")
    /\ last.sendState = <<"fulfilled", "rejected">>
    /\ last.status = 500
    /\ sendCalls[last.sess.id] = 2

\* C5: per session id, the sendMail calls made are twice the polls that
\* retrieved the session paid: every such poll sends both mails again.
C5_EveryPaidPollResends ==
    \A id \in SessionIds : sendCalls[id] = 2 * paidPolls[id]

C5_Witness ==
    \E id \in SessionIds : paidPolls[id] = MaxRequests /\ sendCalls[id] = 2 * MaxRequests

\* C6: a create request answered 200 carries a complete body and is answered
\* {id} with the id of the session the gateway issued for it, the newest one.
C6_CreateReturnsGatewayId ==
    (last.kind = "create" /\ last.status = 200) =>
        /\ ~LacksRequired(last.req)
        /\ sessions # <<>>
        /\ last.body = [id |-> sessions[Len(sessions)].id]
        /\ sessions[Len(sessions)].customer_email = last.req.email

C6_Witness ==
    /\ last.kind = "create"
    /\ last.status = 200
    /\ last.body = [id |-> SessionIdPool[1]]
    /\ Len(sessions) = 1

\* A configuration with a required variable unset or empty, or a
\* FRONTEND_URL that is no absolute URL.
BadConfiguration(e) ==
    \/ \E n \in EnvNames : n \notin DOMAIN e
    \/ \E n \in EnvNames \cap DOMAIN e : e[n] = <<>>
    \/ "FRONTEND_URL" \in DOMAIN e /\ ~URLParses(e["FRONTEND_URL"])

\* C7: once start-up has run, a bad configuration has exited the process
\* with code 1 and a good one has it listening; no request is received
\* before the process listens, and none by a process that exited.
C7_BadConfigurationExits ==
    /\ proc.state # "starting" =>
           IF BadConfiguration(env)
             THEN proc.state = "exited" /\ proc.exitCode = 1
             ELSE proc.state = "listening"
    /\ proc.state # "listening" =>
           /\ nReq = 0
           /\ last = NoResponse
           /\ \A r \in SlotIds : slots[r] = IdleSlot

C7_Witness ==
    /\ proc.state = "exited"
    /\ proc.exitCode = 1
    /\ proc.diagnostic = "Error: Invalid FRONTEND_URL"
    /\ env["FRONTEND_URL"] = <<"not", " ", "a", " ", "url">>

\* C8 as stated: the metadata of every session-create call holds all six
\* request fields.
C8_MetadataHoldsAllSix ==
    \A r \in SlotIds :
        slots[r].pc = "create_wait" =>
            DOMAIN slots[r].params.metadata
                = {"vehicleIdentifier", "fullName", "email", "phone", "country",
                   "state"}

\* C8 amended: the metadata of every session-create call holds
\* vehicleIdentifier, fullName, phone, country and state, phone and state as
\* the empty string when missing; email is not in the metadata but is the
\* call's customer_email.
C8_MetadataHoldsFive ==
    \A r \in SlotIds :
        slots[r].pc = "create_wait" =>
            LET body == slots[r].req
                md == slots[r].params.metadata
            IN  /\ DOMAIN md = {"vehicleIdentifier", "fullName", "phone",
                               "country", "state"}
                /\ md.vehicleIdentifier = body.vehicleIdentifier
                /\ md.fullName = body.fullName
                /\ md.country = body.country
                /\ md.phone = (IF body.phone \in {Undefined, ""} THEN "" ELSE body.phone)
                /\ md.state = (IF body.state \in {Undefined, ""} THEN "" ELSE body.state)
                /\ slots[r].params.customer_email = body.email

C8_Witness ==
    \E r \in SlotIds :
        /\ slots[r].pc = "create_wait"
        /\ slots[r].req.phone = Undefined
        /\ slots[r].params.metadata.phone = ""
        /\ slots[r].params.metadata.state = "CA"

\* C9: a request on which a gateway call failed is answered 500 with the
\* fixed message of its endpoint whatever the gateway's error, and a failed
\* retrieve has made no sendMail call.
C9_GatewayFailureIsGeneric ==
    /\ (last.kind = "create" /\ last.logged # <<>>) =>
           /\ last.status = 500
           /\ last.body = [error |-> "Failed to create checkout session"]
    /\ (last.kind = "status" /\ last.logged # <<>>) =>
           /\ last.status = 500
           /\ last.body = [error |-> "Failed to retrieve checkout session"]
    /\ (last.kind = "status" /\ last.logged # <<>> /\ last.sess = NoSession) =>
           /\ last.mails = <<>>
           /\ CountCalls(last.calls, "sendMail") = 0
    /\ last.status = 500 => last.logged # <<>>

C9_Witness ==
    /\ last.kind = "create"
    /\ last.status = 500
    /\ last.logged = <<"Error creating checkout session:", "Invalid email address">>
    /\ last.calls = <<"checkout.sessions.create">>

\* C10: a handler waiting on the join has started both sends and has none
\* rejected and not both fulfilled; a poll of a paid session is answered
\* 200 only with both sends fulfilled, 500 only with a send rejected, and
\* never with both sends pending.
C10_ResponseJoinsBothSends ==
    /\ \A r \in SlotIds :
           slots[r].pc = "mail_wait" =>
               /\ Len(slots[r].sendState) = 2
               /\ \A k \in 1..2 : slots[r].sendState[k] # "rejected"
               /\ \E k \in 1..2 : slots[r].sendState[k] = "pending"
    /\ AnswersPollOf("paid") =>
           /\ Len(last.sendState) = 2
           /\ \E k \in 1..2 : last.sendState[k] # "pending"
           /\ last.status = 200 => \A k \in 1..2 : last.sendState[k] = "fulfilled"
           /\ last.status = 500 => \E k \in 1..2 : last.sendState[k] = "rejected"
           /\ last.status \in {200, 500}

C10_Witness ==
    /\ AnswersPollOf("paid")
    /\ last.status = 500
    /\ last.sendState = <<"pending", "rejected">>
    /\ \E r \in SlotIds : slots[r].pc = "drain"

====
